---- MODULE Spec2Model ----
(***************************************************************************)
(* Verification model of the Kong gateway authentication stack:           *)
(*   - custom-jwt-auth.py          gateway plugin, verifies tokens locally *)
(*   - custom-auth-pre-function.py gateway plugin, delegates to the        *)
(*                                 auth service with bounded retries       *)
(*   - auth-service/app.py         Flask service: JWKS cache, token        *)
(*                                 verification, authorization rules       *)
(* The three programs are separate processes with disjoint state; the     *)
(* variable `unit` fixes which of them a behaviour exercises.  Requests    *)
(* are handled by concurrent workers; a worker is suspended only while a   *)
(* network call (JWKS fetch, remote verification attempt) is in flight.    *)
(* PyJWT is modelled with the semantics of its 2.x line, the one whose     *)
(* RSAAlgorithm.from_jwk accepts the dict the auth service passes to it;   *)
(* where custom-jwt-auth passes an option only the 1.x line reads          *)
(* ('require_exp'), both outcomes are kept.                                *)
(***************************************************************************)
EXTENDS Integers, Sequences, FiniteSets, TLC

\* ------------------------------------------------------------------ bounds
\* a request differs from a well-formed request in at most MaxDeviations fields
MaxDeviations == 1
\* number of clock advances in a behaviour
MaxTicks == 2
\* configured retry_count ranges over 0..MaxRetry
MaxRetry == 1
\* concurrent workers of a process
NumWorkers == 2
\* longest role list of a token handed to the authorization rules
MaxRoles == 2
\* key sets the identity provider publishes for a realm, one after the other
MaxVersions == 2
\* cache lifetimes that pass while refreshes are followed
MaxLifetimes == 1

\* ------------------------------------------------------- program constants
cache_ttl == 3600

Workers == 1..NumWorkers

JwtPlugin == "custom-jwt-auth"
PrePlugin == "custom-auth-pre-function"
AuthSvc == "auth-service"
Units == {JwtPlugin, PrePlugin, AuthSvc}

\* Python's None for optional values: <<>> is None, <<x>> is the value x
None == <<>>
Some(x) == <<x>>
NoError == "None"

\* ------------------------------------------------------------ key material
\* URL-safe base64 transport encoding of the RSA numbers used by the model:
\* "AQAB" is the bytes 01 00 01, "Iw" the byte 23 (hex), "Mw" the byte 33 (hex)
B64Table == ("AQAB" :> 65537) @@ ("Iw" :> 35) @@ ("Mw" :> 51)

\* Plugin._base64url_decode followed by int.from_bytes(..., 'big'):
\* None when the string is no valid base64 (the decoder raises)
base64url_decode_int(data) ==
    IF data \in DOMAIN B64Table THEN Some(B64Table[data]) ELSE None

Jwk(kid, kty, use, n, e) == [kid |-> kid, kty |-> kty, use |-> use, n |-> n, e |-> e]
KeyA == Jwk("k1", "RSA", "sig", "Iw", "AQAB")
KeyB == Jwk("k2", "RSA", "sig", "Mw", "AQAB")
KeyEC == Jwk("k3", "EC", "sig", "", "")

\* JSON bodies the identity provider's certs endpoint may answer with
\* (object = FALSE: valid JSON that is not an object)
JwksBody(keys) == [object |-> TRUE, keys |-> keys]
NotObject == [object |-> FALSE, keys |-> <<>>]
JwksBodies == {
    JwksBody(<<KeyA>>),
    JwksBody(<<KeyB>>),
    JwksBody(<<KeyA, KeyB>>),
    JwksBody(<<KeyA, KeyEC>>),
    JwksBody(<<>>),
    NotObject }
\* outcomes of requests.get(...).raise_for_status().json(): the exception
\* raised, or exc = "" and the decoded body
FetchFailures == {"RequestException", "JSONDecodeError"}
FetchOutcomes ==
    {[exc |-> e, body |-> NotObject] : e \in FetchFailures}
    \cup {[exc |-> "", body |-> b] : b \in JwksBodies}

\* ---------------------------------------------------------------- requests
\* A request as the three programs see it.  hdr is the form of the
\* Authorization header (for the auth service: of the payload's token field):
\* "Bearer" = "Bearer <jwt>", "raw" = "<jwt>", "Basic" = "Basic <jwt>",
\* "none" = absent.  structure: "ok" three segments, "few" fewer, "many"
\* more (all base64-decodable), "garbled" three undecodable segments.
\* sig is the modulus of the key pair that produced the signature.
\* exp and nbf are optional timestamps; json says whether the auth service
\* received a JSON payload at all.
ExpectedIssuer == "http://d1df8d9f5a76.ngrok-free.app/realms/kong"
OtherIssuer == "https://idp.example/realms/other"
ExpectedAudience == "account"

BaseShape(kid, sig) ==
    [hdr |-> "Bearer", structure |-> "ok", alg |-> "RS256", kid |-> kid,
     sig |-> sig, exp |-> Some(2), nbf |-> None, iss |-> ExpectedIssuer,
     aud |-> {ExpectedAudience}, sub |-> "user-1", client_id |-> "kong_client",
     roles |-> <<"offline_access">>, path |-> <<"api", "orders">>,
     method |-> "GET", json |-> TRUE]
BaseShapes == {BaseShape("k1", 35), BaseShape("k2", 51)}

Hdrs == {"Bearer", "raw", "Basic", "none"}
Structures == {"ok", "few", "many", "garbled"}
Algs == {"RS256", "HS256", "none", ""}
Kids == {"k1", "k2", ""}
Sigs == {35, 51}
\* offsets from the arrival time: 0 = one second ago, 1 = now, 2 = in one second
ExpShapes == {None, Some(0), Some(1), Some(2)}
NbfShapes == {None, Some(2)}
Issuers == {ExpectedIssuer, OtherIssuer, ""}
Auds == {{}, {ExpectedAudience}, {"other"}, {ExpectedAudience, "other"}}
RoleLists == {<<>>, <<"offline_access">>, <<"uma_authorization">>}
Paths == {<<>>, <<"api", "orders">>, <<"api", "inventory">>, <<"api", "other">>}
Methods == {"", "GET", "POST"}

\* the fields of a request each program reads
TokenFields == {"structure", "alg", "kid", "sig", "exp", "nbf", "iss", "aud"}
FieldsOf(u) ==
    CASE u = JwtPlugin -> {"hdr", "roles"} \cup TokenFields
      [] u = PrePlugin -> {"hdr", "path", "method"}
      [] OTHER -> {"hdr", "roles", "path", "method", "json"} \cup TokenFields

Deviate(r, F) ==
    {r}
    \cup (IF "hdr" \in F THEN {[r EXCEPT !.hdr = v] : v \in Hdrs} ELSE {})
    \cup (IF "structure" \in F THEN {[r EXCEPT !.structure = v] : v \in Structures} ELSE {})
    \cup (IF "alg" \in F THEN {[r EXCEPT !.alg = v] : v \in Algs} ELSE {})
    \cup (IF "kid" \in F THEN {[r EXCEPT !.kid = v] : v \in Kids} ELSE {})
    \cup (IF "sig" \in F THEN {[r EXCEPT !.sig = v] : v \in Sigs} ELSE {})
    \cup (IF "exp" \in F THEN {[r EXCEPT !.exp = v] : v \in ExpShapes} ELSE {})
    \cup (IF "nbf" \in F THEN {[r EXCEPT !.nbf = v] : v \in NbfShapes} ELSE {})
    \cup (IF "iss" \in F THEN {[r EXCEPT !.iss = v] : v \in Issuers} ELSE {})
    \cup (IF "aud" \in F THEN {[r EXCEPT !.aud = v] : v \in Auds} ELSE {})
    \cup (IF "roles" \in F THEN {[r EXCEPT !.roles = v] : v \in RoleLists} ELSE {})
    \cup (IF "path" \in F THEN {[r EXCEPT !.path = v] : v \in Paths} ELSE {})
    \cup (IF "method" \in F THEN {[r EXCEPT !.method = v] : v \in Methods} ELSE {})
    \cup (IF "json" \in F THEN {[r EXCEPT !.json = v] : v \in BOOLEAN} ELSE {})

RECURSIVE DeviateN(_, _, _)
DeviateN(S, F, n) ==
    IF n = 0 THEN S ELSE DeviateN(UNION {Deviate(r, F) : r \in S}, F, n - 1)

\* request shapes: every shape within MaxDeviations of a well-formed request
JwtShapes == DeviateN(BaseShapes, FieldsOf(JwtPlugin), MaxDeviations)
PreShapes == DeviateN(BaseShapes, FieldsOf(PrePlugin), MaxDeviations)
SvcShapes == DeviateN(BaseShapes, FieldsOf(AuthSvc), MaxDeviations)
ShapesOf(u) ==
    CASE u = JwtPlugin -> JwtShapes
      [] u = PrePlugin -> PreShapes
      [] OTHER -> SvcShapes
\* the well-formed request that is handled concurrently with others
PlainShape == BaseShape("k1", 35)

\* a shape arriving at time t: offsets become timestamps
Stamp(r, t) ==
    [r EXCEPT !.exp = IF r.exp = None THEN None ELSE Some(t + r.exp[1] - 1),
              !.nbf = IF r.nbf = None THEN None ELSE Some(t + r.nbf[1] - 1)]

\* ------------------------------------------------------------- PyJWT model
\* exception classes and their base class
ExcParent(c) ==
    CASE c = "InvalidSignatureError" -> "DecodeError"
      [] c \in {"DecodeError", "ExpiredSignatureError", "InvalidAudienceError",
                "InvalidIssuerError", "ImmatureSignatureError",
                "InvalidAlgorithmError", "MissingRequiredClaimError"} -> "InvalidTokenError"
      [] c \in {"InvalidTokenError", "InvalidKeyError"} -> "PyJWTError"
      [] OTHER -> "Exception"

RECURSIVE IsInstance(_, _)
IsInstance(exc, cls) ==
    \/ exc = cls
    \/ exc # "Exception" /\ IsInstance(ExcParent(exc), cls)

\* the kind of the first except clause, in source order, that matches exc;
\* handlers is a sequence of <<class, kind>>
RECURSIVE Catch(_, _)
Catch(handlers, exc) ==
    IF handlers = <<>> THEN "Uncaught"
    ELSE IF IsInstance(exc, Head(handlers)[1]) THEN Head(handlers)[2]
    ELSE Catch(Tail(handlers), exc)

\* jwt.get_unverified_header: PyJWS._load cuts the signature at the last dot
\* and the header at the first and base64/JSON-decodes header and signature;
\* it raises DecodeError for fewer than three segments or undecodable ones.
\* Surplus dots stay inside the payload segment, where the base64 decoder
\* discards them.  tok.hdr = "Basic" is a string with a scheme word in front
\* of the token: its first segment is no JSON.
HeaderLoads(tok) == tok.hdr = "raw" /\ tok.structure \in {"ok", "many"}

\* jwt.decode(token, key, algorithms=['RS256'], issuer=, audience=) at time t:
\* "" when the token is accepted, else the class of the exception raised.
\* Order: algorithm allow-list, signature, required claims, then the claims
\* nbf, exp, iss, aud; exp and nbf are checked only if present; issuer = None
\* skips the iss check.  require_exp: the library honours a request to
\* require the exp claim.
jwt_decode(tok, key, issuer, audience, require_exp, t) ==
    IF tok.alg # "RS256" THEN "InvalidAlgorithmError"
    ELSE IF tok.sig # key.n THEN "InvalidSignatureError"
    ELSE IF require_exp /\ tok.exp = None THEN "MissingRequiredClaimError"
    ELSE IF tok.nbf # None /\ tok.nbf[1] > t THEN "ImmatureSignatureError"
    ELSE IF tok.exp # None /\ tok.exp[1] <= t THEN "ExpiredSignatureError"
    ELSE IF issuer # None /\ tok.iss = "" THEN "MissingRequiredClaimError"
    ELSE IF issuer # None /\ tok.iss # issuer[1] THEN "InvalidIssuerError"
    ELSE IF tok.aud = {} THEN "MissingRequiredClaimError"
    ELSE IF audience \notin tok.aud THEN "InvalidAudienceError"
    ELSE ""

\* the decoded payload (claims) of a token
Payload(tok) ==
    [sub |-> tok.sub, client_id |-> tok.client_id, roles |-> tok.roles,
     iss |-> tok.iss, aud |-> tok.aud, exp |-> tok.exp]

\* ------------------------------------------------ custom-jwt-auth.py plugin
\* the three-valued return of Plugin._validate_jwt
Success(payload) == [is_valid |-> TRUE, payload |-> Some(payload), error |-> NoError]
\* a failure that keeps a payload next to its error
FailureWithPayload(error) ==
    [is_valid |-> FALSE, payload |-> Some([error |-> error]), error |-> error]
Failure(error) == [is_valid |-> FALSE, payload |-> None, error |-> error]

\* Plugin._validate_jwt, header part: "" when the header passes
ValidateHeader(tok) ==
    IF ~HeaderLoads(tok) THEN "MalformedToken"
    ELSE IF (IF tok.alg = "" THEN "RS256" ELSE tok.alg) # "RS256" THEN "UnsupportedAlgorithm"
    ELSE IF tok.kid = "" THEN "MissingKeyId"
    ELSE ""

\* index of the first key of the sequence with the given kid, 0 if none
RECURSIVE FindKey(_, _, _)
FindKey(keys, kid, i) ==
    IF i > Len(keys) THEN 0
    ELSE IF keys[i].kid = kid THEN i
    ELSE FindKey(keys, kid, i + 1)

KeyError(error) == [key |-> None, error |-> error]

\* a key lookup that does not look at the key's use
PublicKeyIgnoringUse(jwks, kid) ==
    IF ~jwks.object THEN KeyError("JwksError")
    ELSE LET i == FindKey(jwks.keys, kid, 1) IN
      IF i = 0 THEN KeyError("KeyNotFound")
      ELSE LET target_key == jwks.keys[i]
               n_int == base64url_decode_int(target_key.n)
               e_int == base64url_decode_int(target_key.e)
           IN IF target_key.kty # "RSA" THEN KeyError("UnsupportedKey")
              ELSE IF target_key.n = "" \/ target_key.e = "" THEN KeyError("MalformedKey")
              ELSE IF n_int = None \/ e_int = None THEN KeyError("MalformedKey")
              ELSE [key |-> Some([n |-> n_int[1], e |-> e_int[1]]), error |-> NoError]
\* Plugin._get_public_key_from_jwks after the JWKS is at hand
PublicKeyFromJwks(jwks, kid) ==
    IF ~jwks.object THEN KeyError("JwksError")
    ELSE LET i == FindKey(jwks.keys, kid, 1) IN
      IF i = 0 THEN KeyError("KeyNotFound")
      ELSE LET target_key == jwks.keys[i]
               n_int == base64url_decode_int(target_key.n)
               e_int == base64url_decode_int(target_key.e)
           IN IF target_key.kty # "RSA" THEN KeyError("UnsupportedKey")
              ELSE IF target_key.use \notin {"sig", ""} THEN KeyError("UnsupportedKey")
              ELSE IF target_key.n = "" \/ target_key.e = "" THEN KeyError("MalformedKey")
              ELSE IF n_int = None \/ e_int = None THEN KeyError("MalformedKey")
              ELSE [key |-> Some([n |-> n_int[1], e |-> e_int[1]]), error |-> NoError]

\* the except clauses around pyjwt.decode in Plugin._validate_jwt, in source order
JwtDecodeHandlers == <<
    <<"ExpiredSignatureError", "ExpiredToken">>,
    <<"InvalidTokenError", "InvalidToken">>,
    <<"InvalidIssuerError", "InvalidIssuer">>,
    <<"InvalidAudienceError", "InvalidAudience">>,
    <<"InvalidSignatureError", "InvalidSignature">>,
    <<"Exception", "TokenValidationError">> >>

\* Plugin._validate_jwt from the key lookup on, kr being the lookup's result.
\* The options dict asks for 'require_exp': True, a key that PyJWT 1.x honours
\* and PyJWT 2.x ignores: legacy tells which library the plugin runs on
ValidateWithKey(tok, kr, expected_issuer, expected_audience, legacy, t) ==
    IF kr.key = None THEN Failure(kr.error)
    ELSE LET exc == jwt_decode(tok, kr.key[1], Some(expected_issuer),
                               expected_audience, legacy, t)
         IN IF exc = "" THEN Success(Payload(tok))
            ELSE Failure(Catch(JwtDecodeHandlers, exc))

\* what Plugin.access / verify_auth hand back: status 0 lets the request
\* through to the upstream, any other status is the response sent instead
\* (v: the verification result if a token was verified; body: the JSON sent)
Exit(status, kind, v) ==
    [status |-> status, kind |-> kind, v |-> v, headers |-> {}, body |-> None]
Forward(v, headers) ==
    [status |-> 0, kind |-> "Forwarded", v |-> v, headers |-> headers, body |-> None]

JwtIdentityHeaders == {"X-User-ID", "X-Username", "X-User-Email", "X-User-Roles"}

\* Plugin.access after _validate_jwt returned v
JwtAccessResult(v) ==
    IF ~v.is_valid THEN Exit(401, "InvalidToken", Some(v))
    ELSE Forward(Some(v), IF v.payload # None THEN JwtIdentityHeaders ELSE {})

\* an access phase that reads the Authorization header before its settings
JwtEarlyExitHeaderFirst(cfg, r) ==
    IF r.hdr = "none" THEN Some(Exit(401, "MissingAuthHeader", None))
    ELSE IF r.hdr # "Bearer" THEN Some(Exit(401, "InvalidAuthFormat", None))
    ELSE IF ~cfg.complete THEN Some(Exit(500, "ConfigurationError", None))
    ELSE None
\* Plugin.access before the key lookup: the response if it ends there
JwtEarlyExit(cfg, r) ==
    IF ~cfg.complete THEN Some(Exit(500, "ConfigurationError", None))
    ELSE IF r.hdr = "none" THEN Some(Exit(401, "MissingAuthHeader", None))
    ELSE IF r.hdr # "Bearer" THEN Some(Exit(401, "InvalidAuthFormat", None))
    ELSE LET e == ValidateHeader([r EXCEPT !.hdr = "raw"])
         IN IF e # "" THEN Some(JwtAccessResult(Failure(e))) ELSE None

\* ------------------------------------------------------ auth-service/app.py
\* jwt.algorithms.RSAAlgorithm.from_jwk(key): None when it raises
from_jwk(key) ==
    LET n_int == base64url_decode_int(key.n)
        e_int == base64url_decode_int(key.e)
    IN IF key.kty # "RSA" THEN None
       ELSE IF key.n = "" \/ key.e = "" THEN None
       ELSE IF n_int = None \/ e_int = None THEN None
       ELSE Some([n |-> n_int[1], e |-> e_int[1]])

\* the loop of get_public_keys over jwks['keys']: the dict kid -> key as a
\* set of entries, None when a key makes from_jwk raise
RECURSIVE BuildKeys(_, _, _)
BuildKeys(keys, i, acc) ==
    IF i > Len(keys) THEN Some(acc)
    ELSE LET key == keys[i] IN
      IF key.kid = "" THEN BuildKeys(keys, i + 1, acc)
      ELSE LET k == from_jwk(key) IN
        IF k = None THEN None
        ELSE BuildKeys(keys, i + 1,
                       {x \in acc : x.kid # key.kid} \cup {[kid |-> key.kid, key |-> k[1]]})

\* get_public_keys, the try block after the response arrived: the new key
\* dict, None when the block raises
ParseJwks(out) ==
    IF out.exc # "" THEN None
    ELSE IF ~out.body.object THEN None
    ELSE BuildKeys(out.body.keys, 1, {})

\* get_public_keys: the cache answers without a fetch
CacheFresh(expiry, cache, current_time) ==
    expiry # 0 /\ current_time < expiry /\ cache # {}

\* the except clauses of verify_jwt_token, in source order
SvcHandlers == <<
    <<"ExpiredSignatureError", "ExpiredToken">>,
    <<"InvalidAudienceError", "InvalidAudience">>,
    <<"InvalidIssuerError", "InvalidIssuer">>,
    <<"InvalidTokenError", "InvalidToken">>,
    <<"Exception", "Error">> >>

\* verify_jwt_token returns the decoded token or None; error is the error
\* it logged, is_valid what its callers test
Decoded(payload) == [is_valid |-> TRUE, payload |-> Some(payload), error |-> NoError]
Rejected(error) == [is_valid |-> FALSE, payload |-> None, error |-> error]

\* verify_jwt_token: the token string after the optional 'Bearer ' prefix is cut
StripBearer(r) == IF r.hdr = "Bearer" THEN [r EXCEPT !.hdr = "raw"] ELSE r

\* verify_jwt_token up to get_public_keys: "" when it gets that far
SvcHeader(tok) ==
    IF ~HeaderLoads(tok) THEN Catch(SvcHandlers, "DecodeError")
    ELSE IF tok.kid = "" THEN "MissingKeyId"
    ELSE ""

\* a verification that tries the signature against some key when the token's
\* kid names none of the key dict
SvcVerifyAnyKey(tok, public_keys, t) ==
    LET known == {x \in public_keys : x.kid = tok.kid}
        tried == IF known # {} THEN known ELSE public_keys
    IN IF tried = {} THEN Rejected("KeyNotFound")
       ELSE LET key == (CHOOSE x \in tried : TRUE).key
                exc == jwt_decode(tok, key, None, "account", FALSE, t)
            IN IF exc = "" THEN Decoded(Payload(tok))
               ELSE Rejected(Catch(SvcHandlers, exc))
\* verify_jwt_token from the key dict on
SvcVerifyWithKeys(tok, public_keys, t) ==
    IF \A x \in public_keys : x.kid # tok.kid THEN Rejected("KeyNotFound")
    ELSE LET key == (CHOOSE x \in public_keys : x.kid = tok.kid).key
             exc == jwt_decode(tok, key, None, "account", FALSE, t)
         IN IF exc = "" THEN Decoded(Payload(tok))
            ELSE Rejected(Catch(SvcHandlers, exc))

InList(x, l) == \E i \in 1..Len(l) : l[i] = x

\* '/name' in api_path, the path being its sequence of segments
PathHas(path, name) == InList(name, path)

\* a mapping that takes a token without client id for the gateway's own client
enterprise_of_subject(decoded_token) ==
    CASE decoded_token.client_id \in {"kong_client", ""} -> "enterprise-123"
      [] decoded_token.client_id = "mobile_app" -> "enterprise-456"
      [] decoded_token.client_id = "web_app" -> "enterprise-789"
      [] OTHER -> "enterprise-default"
\* determine_enterprise_id
determine_enterprise_id(decoded_token) ==
    CASE decoded_token.client_id = "kong_client" -> "enterprise-123"
      [] decoded_token.client_id = "mobile_app" -> "enterprise-456"
      [] decoded_token.client_id = "web_app" -> "enterprise-789"
      [] OTHER -> "enterprise-default"

\* rules that deny a method the block of the path does not list
is_authorized_strict(decoded_token, api_path, method) ==
    LET roles == decoded_token.roles
    IN IF PathHas(api_path, "orders") THEN
          IF method = "GET" THEN InList("offline_access", roles)
          ELSE IF method = "POST" THEN InList("uma_authorization", roles)
          ELSE IF method \in {"PUT", "DELETE"} THEN InList("default-roles-kong", roles)
          ELSE FALSE
       ELSE IF PathHas(api_path, "inventory") THEN
          IF method = "GET" THEN TRUE
          ELSE IF method \in {"PUT", "POST", "DELETE"} THEN InList("uma_authorization", roles)
          ELSE FALSE
       ELSE Len(roles) > 0
\* rules whose default lets every verified caller through
is_authorized_open_default(decoded_token, api_path, method) ==
    LET roles == decoded_token.roles
    IN IF PathHas(api_path, "orders") THEN
          IF method = "GET" THEN InList("offline_access", roles)
          ELSE IF method = "POST" THEN InList("uma_authorization", roles)
          ELSE IF method \in {"PUT", "DELETE"} THEN InList("default-roles-kong", roles)
          ELSE TRUE
       ELSE IF PathHas(api_path, "inventory") THEN
          IF method = "GET" THEN TRUE
          ELSE IF method \in {"PUT", "POST", "DELETE"} THEN InList("uma_authorization", roles)
          ELSE TRUE
       ELSE TRUE
\* is_authorized
is_authorized(decoded_token, api_path, method) ==
    LET roles == decoded_token.roles
        default == Len(roles) > 0
    IN IF PathHas(api_path, "orders") THEN
          IF method = "GET" THEN InList("offline_access", roles)
          ELSE IF method = "POST" THEN InList("uma_authorization", roles)
          ELSE IF method \in {"PUT", "DELETE"} THEN InList("default-roles-kong", roles)
          ELSE default
       ELSE IF PathHas(api_path, "inventory") THEN
          IF method = "GET" THEN TRUE
          ELSE IF method \in {"PUT", "POST", "DELETE"} THEN InList("uma_authorization", roles)
          ELSE default
       ELSE default

SvcResponse(status, kind, v, body) ==
    [status |-> status, kind |-> kind, v |-> v, headers |-> {}, body |-> body]

\* a verify_auth that asks the rules before it looks at the verification
SvcAuthResultRulesFirst(r, v) ==
    IF ~is_authorized(Payload(r), r.path, r.method)
    THEN SvcResponse(403, "AccessDenied", Some(v), None)
    ELSE IF ~v.is_valid THEN SvcResponse(401, "InvalidToken", Some(v), None)
    ELSE SvcResponse(200, "Authorized", Some(v),
             Some([authorized |-> TRUE, user_id |-> v.payload[1].sub,
                   enterprise_id |-> determine_enterprise_id(v.payload[1]),
                   client_id |-> IF v.payload[1].client_id = "" THEN "unknown"
                                 ELSE v.payload[1].client_id,
                   roles |-> None]))
\* verify_auth after verify_jwt_token returned v
SvcAuthResult(r, v) ==
    IF ~v.is_valid THEN SvcResponse(401, "InvalidToken", Some(v), None)
    ELSE LET decoded_token == v.payload[1] IN
      IF ~is_authorized(decoded_token, r.path, r.method)
      THEN SvcResponse(403, "AccessDenied", Some(v), None)
      ELSE SvcResponse(200, "Authorized", Some(v),
             Some([authorized |-> TRUE, user_id |-> decoded_token.sub,
                   enterprise_id |-> determine_enterprise_id(decoded_token),
                   client_id |-> IF decoded_token.client_id = "" THEN "unknown"
                                 ELSE decoded_token.client_id,
                   roles |-> None]))

\* verify_auth before get_public_keys: the response if it ends there
SvcEarlyExit(r) ==
    IF ~r.json THEN Some(SvcResponse(400, "NoPayload", None, None))
    ELSE IF r.path = <<>> \/ r.method = "" \/ r.hdr = "none"
         THEN Some(SvcResponse(400, "MissingFields", None, None))
    ELSE LET e == SvcHeader(StripBearer(r))
         IN IF e # "" THEN Some(SvcAuthResult(r, Rejected(e))) ELSE None

\* --------------------------------------- custom-auth-pre-function.py plugin
\* what one attempt of the remote verification call can meet: status 0 is a
\* transport failure (URLError), else the HTTP status and the body.  A body
\* is empty, no JSON ("garbage"), JSON that is no object ("list") or an
\* object with its 'authorized' and 'roles' fields (absent counts as FALSE)
RemoteBody(text, authorized, roles) ==
    [text |-> text, authorized |-> authorized, roles |-> roles]
RemoteBodies == {
    RemoteBody("empty", FALSE, FALSE),
    RemoteBody("garbage", FALSE, FALSE),
    RemoteBody("list", FALSE, FALSE),
    RemoteBody("object", FALSE, FALSE),
    RemoteBody("object", TRUE, FALSE),
    RemoteBody("object", TRUE, TRUE) }
RemoteStatuses == {200, 201, 401, 403, 500}
RemoteOutcomes ==
    {[status |-> 0, body |-> RemoteBody("empty", FALSE, FALSE)]}
    \cup {[status |-> st, body |-> b] : st \in RemoteStatuses, b \in RemoteBodies}

\* the data _make_http_request returns next to its success flag
\* on failure: an object without an 'authorized' field ({} or {"error": ...})
ErrorData == RemoteBody("object", FALSE, FALSE)

\* json.loads raises on the body
JsonRaises(body) == body.text \in {"empty", "garbage"}

\* what an iteration of the loop of _make_http_request ends in: the next
\* iteration (retry) or a return of (success, data); error is the kind of
\* the error the returned data reports, "" if it reports none:
\*   "Denied"           the answer was 401/403
\*   "UnexpectedStatus" a 2xx answer other than 200, its body returned
\*   "HttpError"        {"error": "HTTP <code>: <body>"}
\*   "ConnectionError"  {"error": "Connection error: ..."}
\*   "RequestError"     {"error": "Request error: ..."}
HttpReturn(success, data, error) ==
    [retry |-> FALSE, success |-> success, data |-> data, error |-> error]
HttpRetry == [retry |-> TRUE, success |-> FALSE, data |-> ErrorData, error |-> ""]

\* an except clause that grants one attempt more than configured
RetryOnceMore(attempt, retry_count, error) ==
    IF attempt <= retry_count THEN HttpRetry ELSE HttpReturn(FALSE, ErrorData, error)
\* the retry decision of the except clauses of _make_http_request; error is
\* the kind of the error the clause returns when it does not retry
RetryOrFail(attempt, retry_count, error) ==
    IF attempt < retry_count THEN HttpRetry ELSE HttpReturn(FALSE, ErrorData, error)

\* a loop that treats a 401/403 answer like any other HTTP error
MakeHttpAttemptRetriesDenial(out, attempt, retry_count) ==
    IF out.status = 200 /\ ~JsonRaises(out.body) THEN HttpReturn(TRUE, out.body, "")
    ELSE RetryOrFail(attempt, retry_count, "HttpError")
\* one iteration of the loop of Plugin._make_http_request: attempt is the
\* loop index, out what urlopen met
MakeHttpAttempt(out, attempt, retry_count) ==
    IF out.status = 0 THEN RetryOrFail(attempt, retry_count, "ConnectionError")
    ELSE IF out.status = 200 THEN
        IF JsonRaises(out.body) THEN RetryOrFail(attempt, retry_count, "RequestError")
        ELSE HttpReturn(TRUE, out.body, "")
    ELSE IF out.status \in 201..299 THEN
        IF out.body.text = "empty" THEN HttpReturn(FALSE, ErrorData, "UnexpectedStatus")
        ELSE IF JsonRaises(out.body) THEN RetryOrFail(attempt, retry_count, "RequestError")
        ELSE HttpReturn(FALSE, out.body, "UnexpectedStatus")
    ELSE IF out.status \in {401, 403} THEN
        IF JsonRaises(out.body) THEN HttpReturn(FALSE, ErrorData, "Denied")
        ELSE HttpReturn(FALSE, out.body, "Denied")
    ELSE RetryOrFail(attempt, retry_count, "HttpError")

\* a caller that trusts every successful HTTP exchange, whatever 'authorized'
CallAuthTrustsSuccess(h) ==
    IF h.data.text # "object" THEN [is_authorized |-> FALSE, auth_response |-> ErrorData]
    ELSE [is_authorized |-> h.success, auth_response |-> h.data]
\* Plugin._call_auth_service after _make_http_request returned
CallAuthResult(h) ==
    IF h.data.text # "object" THEN [is_authorized |-> FALSE, auth_response |-> ErrorData]
    ELSE IF ~h.success THEN [is_authorized |-> FALSE, auth_response |-> h.data]
    ELSE IF h.data.authorized THEN [is_authorized |-> TRUE, auth_response |-> h.data]
    ELSE [is_authorized |-> FALSE, auth_response |-> ErrorData]

PreIdentityHeaders == {"X-User-ID", "X-Enterprise-ID", "X-Client-ID", "X-Username"}

\* Plugin.access after _call_auth_service returned
PreAccessResult(c) ==
    IF ~c.is_authorized THEN Exit(403, "AccessDenied", None)
    ELSE IF c.auth_response.authorized
         THEN Forward(None, PreIdentityHeaders
                            \cup (IF c.auth_response.roles THEN {"X-Roles"} ELSE {}))
    ELSE Forward(None, {})

\* an access phase that calls the auth service without looking at the header
PreEarlyExitNoHeaderCheck(cfg, r) ==
    IF ~cfg.complete THEN Some(Exit(500, "ConfigurationError", None)) ELSE None
\* Plugin.access before the remote call: the response if it ends there
PreEarlyExit(cfg, r) ==
    IF ~cfg.complete THEN Some(Exit(500, "ConfigurationError", None))
    ELSE IF r.hdr = "none" THEN Some(Exit(401, "MissingAuthHeader", None))
    ELSE None

\* -------------------------------------------------------------------- state
VARIABLES
    unit,               \* the program this behaviour exercises
    config,             \* its configuration
    now,                \* wall clock, seconds
    ticks,              \* clock advances so far
    pc,                 \* per worker: "idle", "fetching" (JWKS request in
                        \* flight), "calling" (remote verification in flight)
    req,                \* per worker: the request being handled, None if idle
    t0,                 \* per worker: current_time read before the fetch
    io,                 \* per worker: outbound calls made for the request
    last,               \* the handler return made by the latest step, if any:
                        \* worker, request, result and outbound calls
    jwks_cache,         \* Plugin.jwks_cache[cache_key] of custom-jwt-auth
    public_keys_cache,  \* global public_keys_cache of the auth service
    cache_expiry,       \* Plugin.cache_expiry / global cache_expiry
    published,          \* per realm: the key set version the identity
                        \* provider serves now
    answer,             \* per worker: the response to its JWKS request on
                        \* its way back, None until the provider answered
    answered,           \* per realm: the key set the provider gave in its
                        \* latest answer (history)
    plugins             \* per Plugin instance of custom-jwt-auth: its
                        \* jwks_cache dict and cache_expiry; fetched_at is
                        \* the current_time of the refresh that stored each
                        \* entry (history)

refresh_vars == <<published, answer, answered, plugins>>
vars == <<unit, config, now, ticks, pc, req, t0, io, last,
          jwks_cache, public_keys_cache, cache_expiry, refresh_vars>>

\* (keycloak_base_url, keycloak_realm) pairs with a configured Plugin
\* instance each; the auth service reads the first realm only
Pairs == {"kong", "other"}
ServiceRealm == "kong"
\* a Python dict as a function, {} as the function of the empty domain
EmptyDict == [k \in {} |-> None]
DictPut(d, key, v) == [k \in DOMAIN d \cup {key} |-> IF k = key THEN v ELSE d[k]]
\* Plugin.__init__
NewPlugin == [jwks_cache |-> EmptyDict, cache_expiry |-> 0, fetched_at |-> EmptyDict]
RefreshIdle ==
    /\ published = [p \in Pairs |-> 1]
    /\ answer = [w \in Workers |-> None]
    /\ answered = [p \in Pairs |-> None]
    /\ plugins = [p \in Pairs |-> NewPlugin]

\* answers: the statuses of the attempts of the remote call that were retried
NoIo == [fetches |-> 0, calls |-> 0, answers |-> <<>>]

Configs(u) ==
    CASE u = JwtPlugin -> {[complete |-> c, retry_count |-> 0] : c \in BOOLEAN}
      [] u = PrePlugin -> {[complete |-> c, retry_count |-> n] : c \in BOOLEAN, n \in 0..MaxRetry}
      [] OTHER -> {[complete |-> TRUE, retry_count |-> 0]}

Init ==
    /\ unit \in Units
    /\ config \in Configs(unit)
    /\ now = 1
    /\ ticks = 0
    /\ pc = [w \in Workers |-> "idle"]
    /\ req = [w \in Workers |-> None]
    /\ t0 = [w \in Workers |-> 0]
    /\ io = [w \in Workers |-> NoIo]
    /\ last = None
    /\ jwks_cache = None
    /\ public_keys_cache = {}
    /\ cache_expiry = 0
    /\ RefreshIdle

\* the clock advances by a second or by a whole cache lifetime
\* (custom-auth-pre-function reads no clock)
Tick ==
    /\ unit # PrePlugin
    /\ last = None
    /\ ticks < MaxTicks
    /\ \E d \in {1, cache_ttl} : now' = now + d
    /\ ticks' = ticks + 1
    /\ UNCHANGED <<refresh_vars, unit, config, pc, req, t0, io, last,
                   jwks_cache, public_keys_cache, cache_expiry>>

\* the response of the latest return has left the process
Deliver ==
    /\ last # None
    /\ last' = None
    /\ UNCHANGED <<refresh_vars, unit, config, now, ticks, pc, req, t0, io,
                   jwks_cache, public_keys_cache, cache_expiry>>

\* the handler of worker w returns result for request r, having made the
\* outbound calls counted in calls; input is what the network answered to
\* the call it was suspended on, None if it never suspended
Return(w, r, result, calls, input) ==
    /\ pc' = [pc EXCEPT ![w] = "idle"]
    /\ req' = [req EXCEPT ![w] = None]
    /\ t0' = [t0 EXCEPT ![w] = 0]
    /\ io' = [io EXCEPT ![w] = NoIo]
    /\ last' = Some([w |-> w, req |-> r, res |-> result, io |-> calls, input |-> input])

\* the handler of worker w suspends on an outbound call: a JWKS request
\* ("fetching") or an attempt of the remote verification ("calling")
Suspend(w, r, state) ==
    /\ pc' = [pc EXCEPT ![w] = state]
    /\ req' = [req EXCEPT ![w] = Some(r)]
    /\ t0' = [t0 EXCEPT ![w] = now]
    /\ io' = [io EXCEPT ![w] = IF state = "fetching"
                                THEN [@ EXCEPT !.fetches = @ + 1]
                                ELSE [@ EXCEPT !.calls = @ + 1]]
    /\ last' = None

\* the requests worker w may be handed now: the first worker, while no other
\* request is in flight, any shape; any worker, while the requests in flight
\* are well-formed ones, the well-formed one.  custom-auth-pre-function
\* keeps no state between requests: its requests are handled one at a time
Arrivals(w) ==
    IF w = 1 /\ \A v \in Workers : pc[v] = "idle" THEN ShapesOf(unit)
    ELSE IF /\ unit # PrePlugin
            /\ \A v \in Workers :
                  req[v] # None => req[v][1] = Stamp(PlainShape, t0[v])
         THEN {PlainShape}
    ELSE {}

\* an access phase that fetches the key set again when the cached one has
\* no key with the token's kid
JwtAccessRefetching(w) ==
    /\ unit = JwtPlugin
    /\ last = None
    /\ pc[w] = "idle"
    /\ \E s \in Arrivals(w) :
        LET r == Stamp(s, now)
            early == JwtEarlyExit(config, r)
            tok == [r EXCEPT !.hdr = "raw"]
        IN
        IF early # None THEN Return(w, r, early[1], NoIo, None)
        ELSE IF /\ jwks_cache # None /\ now < cache_expiry
                /\ PublicKeyFromJwks(jwks_cache[1], tok.kid).error # "KeyNotFound" THEN
            \E legacy \in BOOLEAN :
              Return(w, r, JwtAccessResult(
                ValidateWithKey(tok, PublicKeyFromJwks(jwks_cache[1], tok.kid),
                                ExpectedIssuer, ExpectedAudience, legacy, now)),
                NoIo, None)
        ELSE Suspend(w, r, "fetching")
    /\ UNCHANGED <<refresh_vars, unit, config, now, ticks, jwks_cache, public_keys_cache, cache_expiry>>
\* Plugin.access of custom-jwt-auth up to its return, or up to the JWKS
\* request when the cache cannot answer
JwtAccess(w) ==
    /\ unit = JwtPlugin
    /\ last = None
    /\ pc[w] = "idle"
    /\ \E s \in Arrivals(w) :
        LET r == Stamp(s, now)
            early == JwtEarlyExit(config, r)
            tok == [r EXCEPT !.hdr = "raw"]
        IN
        IF early # None THEN Return(w, r, early[1], NoIo, None)
        ELSE IF jwks_cache # None /\ now < cache_expiry THEN
            \E legacy \in BOOLEAN :
              Return(w, r, JwtAccessResult(
                ValidateWithKey(tok, PublicKeyFromJwks(jwks_cache[1], tok.kid),
                                ExpectedIssuer, ExpectedAudience, legacy, now)),
                NoIo, None)
        ELSE Suspend(w, r, "fetching")
    /\ UNCHANGED <<refresh_vars, unit, config, now, ticks, jwks_cache, public_keys_cache, cache_expiry>>

\* the JWKS request of custom-jwt-auth returns (or raises) and Plugin.access
\* runs to its return
JwtFetchReturn(w) ==
    /\ unit = JwtPlugin
    /\ last = None
    /\ pc[w] = "fetching"
    /\ \E out \in FetchOutcomes :
        LET r == req[w][1]
            tok == [r EXCEPT !.hdr = "raw"] IN
        IF out.exc # "" THEN
           /\ Return(w, r, JwtAccessResult(Failure(
                        IF out.exc = "RequestException" THEN "JwksFetchFailed"
                        ELSE "JwksInvalidResponse")), io[w], Some(out))
           /\ UNCHANGED <<jwks_cache, cache_expiry>>
        ELSE
           /\ jwks_cache' = Some(out.body)
           /\ cache_expiry' = t0[w] + cache_ttl
           /\ \E legacy \in BOOLEAN :
                Return(w, r, JwtAccessResult(
                    ValidateWithKey(tok, PublicKeyFromJwks(out.body, tok.kid),
                                    ExpectedIssuer, ExpectedAudience, legacy, now)),
                    io[w], Some(out))
    /\ UNCHANGED <<refresh_vars, unit, config, now, ticks, public_keys_cache>>

\* a verify_auth whose evaluation on cached keys expires the cache
SvcVerifyAuthExpiring(w) ==
    /\ unit = AuthSvc
    /\ last = None
    /\ pc[w] = "idle"
    /\ \E s \in Arrivals(w) :
        LET r == Stamp(s, now)
            early == SvcEarlyExit(r)
        IN
        IF early # None
        THEN Return(w, r, early[1], NoIo, None) /\ UNCHANGED cache_expiry
        ELSE IF CacheFresh(cache_expiry, public_keys_cache, now) THEN
            /\ Return(w, r, SvcAuthResult(r,
                SvcVerifyWithKeys(StripBearer(r), public_keys_cache, now)), NoIo, None)
            /\ cache_expiry' = 0
        ELSE Suspend(w, r, "fetching") /\ UNCHANGED cache_expiry
    /\ UNCHANGED <<refresh_vars, unit, config, now, ticks, jwks_cache, public_keys_cache>>
\* verify_auth of the auth service up to its return, or up to the JWKS
\* request when get_public_keys cannot answer from the cache
SvcVerifyAuth(w) ==
    /\ unit = AuthSvc
    /\ last = None
    /\ pc[w] = "idle"
    /\ \E s \in Arrivals(w) :
        LET r == Stamp(s, now)
            early == SvcEarlyExit(r)
        IN
        IF early # None THEN Return(w, r, early[1], NoIo, None)
        ELSE IF CacheFresh(cache_expiry, public_keys_cache, now) THEN
            Return(w, r, SvcAuthResult(r,
                SvcVerifyWithKeys(StripBearer(r), public_keys_cache, now)), NoIo, None)
        ELSE Suspend(w, r, "fetching")
    /\ UNCHANGED <<refresh_vars, unit, config, now, ticks, jwks_cache, public_keys_cache, cache_expiry>>

\* a refresh that adds the fetched keys to the ones already cached
SvcFetchReturnMerging(w) ==
    /\ unit = AuthSvc
    /\ last = None
    /\ pc[w] = "fetching"
    /\ \E out \in FetchOutcomes :
        LET r == req[w][1]
            keys == ParseJwks(out)
            public_keys == IF keys = None THEN public_keys_cache
                           ELSE public_keys_cache \cup keys[1]
        IN
        /\ IF keys = None THEN UNCHANGED <<public_keys_cache, cache_expiry>>
           ELSE /\ public_keys_cache' = public_keys
                /\ cache_expiry' = t0[w] + cache_ttl
        /\ Return(w, r, SvcAuthResult(r,
                SvcVerifyWithKeys(StripBearer(r), public_keys, now)), io[w], Some(out))
    /\ UNCHANGED <<refresh_vars, unit, config, now, ticks, jwks_cache>>
\* the JWKS request of get_public_keys returns (or raises) and verify_auth
\* runs to its return
SvcFetchReturn(w) ==
    /\ unit = AuthSvc
    /\ last = None
    /\ pc[w] = "fetching"
    /\ \E out \in FetchOutcomes :
        LET r == req[w][1]
            keys == ParseJwks(out)
            public_keys == IF keys = None THEN public_keys_cache ELSE keys[1]
        IN
        /\ IF keys = None THEN UNCHANGED <<public_keys_cache, cache_expiry>>
           ELSE /\ public_keys_cache' = keys[1]
                /\ cache_expiry' = t0[w] + cache_ttl
        /\ Return(w, r, SvcAuthResult(r,
                SvcVerifyWithKeys(StripBearer(r), public_keys, now)), io[w], Some(out))
    /\ UNCHANGED <<refresh_vars, unit, config, now, ticks, jwks_cache>>

\* Plugin.access of custom-auth-pre-function up to its return, or up to the
\* first attempt of the remote verification call
PreAccess(w) ==
    /\ unit = PrePlugin
    /\ last = None
    /\ pc[w] = "idle"
    /\ \E s \in Arrivals(w) :
        LET r == Stamp(s, now)
            early == PreEarlyExit(config, r)
        IN
        IF early # None THEN Return(w, r, early[1], NoIo, None)
        ELSE Suspend(w, r, "calling")
    /\ UNCHANGED <<refresh_vars, unit, config, now, ticks, jwks_cache, public_keys_cache, cache_expiry>>

\* an attempt of the remote verification call ends: _make_http_request
\* starts the next attempt or returns, and then Plugin.access runs to its return
PreResponse(w) ==
    /\ unit = PrePlugin
    /\ last = None
    /\ pc[w] = "calling"
    /\ \E out \in RemoteOutcomes :
        LET r == req[w][1]
            h == MakeHttpAttempt(out, io[w].calls - 1, config.retry_count)
        IN
        IF h.retry THEN
            /\ io' = [io EXCEPT ![w].calls = @ + 1,
                                ![w].answers = Append(@, out.status)]
            /\ UNCHANGED <<pc, req, t0, last>>
        ELSE Return(w, r, PreAccessResult(CallAuthResult(h)), io[w], Some(out))
    /\ UNCHANGED <<refresh_vars, unit, config, now, ticks, jwks_cache, public_keys_cache, cache_expiry>>

Next ==
    \/ Tick
    \/ Deliver
    \/ \E w \in Workers : JwtAccess(w)
    \/ \E w \in Workers : JwtFetchReturn(w)
    \/ \E w \in Workers : SvcVerifyAuth(w)
    \/ \E w \in Workers : SvcFetchReturn(w)
    \/ \E w \in Workers : PreAccess(w)
    \/ \E w \in Workers : PreResponse(w)

Spec == Init /\ [][Next]_vars

\* ------------------------------------------ the rules and the key builder
\* The authorization rules of the auth service and the key reconstruction
\* of custom-jwt-auth, applied to every input of their own domains.
RoleNames == {"offline_access", "uma_authorization", "default-roles-kong", "viewer"}
RECURSIVE ListsUpTo(_, _)
ListsUpTo(S, n) ==
    IF n = 0 THEN {<<>>}
    ELSE LET shorter == ListsUpTo(S, n - 1)
         IN shorter \cup {Append(l, x) : l \in shorter, x \in S}
\* realm_access.roles of the decoded token (<<>>: empty or absent)
AuthzRoles == ListsUpTo(RoleNames, MaxRoles)
AuthzPaths == {<<"api", "orders">>, <<"api", "inventory">>, <<"api", "other">>,
               <<"api", "orders", "inventory">>, <<"api", "inventory", "orders">>}
AuthzMethods == {"GET", "POST", "PUT", "DELETE", "PATCH", "HEAD", "get"}
\* client_id of the decoded token ("": absent)
ClientIds == {"kong_client", "mobile_app", "web_app", "partner_app", ""}
\* entries of a JWKS with the kid the token names: kty, use, n and e as
\* served ("": absent, "!!": not decodable)
KeyShapes ==
    {Jwk("k1", kty, use, n, e) : kty \in {"RSA", "EC", ""}, use \in {"sig", "enc", ""},
                                 n \in {"Iw", "Mw", "", "!!"}, e \in {"AQAB", "", "!!"}}

PureInit ==
    /\ unit \in {AuthSvc, JwtPlugin}
    /\ config = [complete |-> TRUE, retry_count |-> 0]
    /\ now = 1
    /\ ticks = 0
    /\ pc = [w \in Workers |-> "idle"]
    /\ req = [w \in Workers |-> None]
    /\ t0 = [w \in Workers |-> 0]
    /\ io = [w \in Workers |-> NoIo]
    /\ last = None
    /\ jwks_cache = None
    /\ public_keys_cache = {}
    /\ cache_expiry = 0
    /\ RefreshIdle

\* verify_auth from the decoded token on: the identity and the decision for
\* a token that verified
Evaluate ==
    /\ unit = AuthSvc
    /\ last = None
    /\ \E roles \in AuthzRoles, path \in AuthzPaths, method \in AuthzMethods,
          client_id \in ClientIds :
        LET r == Stamp([PlainShape EXCEPT !.roles = roles, !.path = path,
                                          !.method = method, !.client_id = client_id], now)
        IN Return(1, r, SvcAuthResult(r, Decoded(Payload(r))), NoIo, None)
    /\ UNCHANGED <<refresh_vars, unit, config, now, ticks, jwks_cache, public_keys_cache, cache_expiry>>

\* Plugin._validate_jwt of a well-formed token against a fetched JWKS whose
\* entry for the token's kid is any key shape
Reconstruct ==
    /\ unit = JwtPlugin
    /\ last = None
    /\ \E key \in KeyShapes, legacy \in BOOLEAN :
        LET r == Stamp(PlainShape, now)
            out == [exc |-> "", body |-> JwksBody(<<key>>)]
        IN Return(1, r, JwtAccessResult(
                ValidateWithKey([r EXCEPT !.hdr = "raw"],
                                PublicKeyFromJwks(out.body, r.kid),
                                ExpectedIssuer, ExpectedAudience, legacy, now)),
                [NoIo EXCEPT !.fetches = 1], Some(out))
    /\ UNCHANGED <<refresh_vars, unit, config, now, ticks, jwks_cache, public_keys_cache, cache_expiry>>

PureNext == Evaluate \/ Reconstruct \/ Deliver

PureSpec == PureInit /\ [][PureNext]_vars

\* ------------------------------- refreshes against a provider that rotates
\* The specification RefreshSpec follows the key-set requests themselves:
\* the identity provider publishes one key set after the other for each
\* realm, answers a request with the set it serves at that moment, and the
\* answer reaches the process later.  custom-jwt-auth runs one Plugin
\* instance per configured (keycloak_base_url, keycloak_realm) pair, each
\* built by Plugin.__init__ with its own cache; the auth service has one
\* cache for its JWKS_URL.  Requests carry the well-formed tokens.
KeySetAt(v) ==
    IF v = 1 THEN JwksBody(<<KeyA>>)
    ELSE IF v = 2 THEN JwksBody(<<KeyA, KeyB>>)
    ELSE JwksBody(<<KeyB>>)
\* expected_issuer of the instance configured for realm p
IssuerOf(p) == IF p = ServiceRealm THEN ExpectedIssuer ELSE OtherIssuer
\* the well-formed tokens issued by realm p
RefreshShapes(p) == {[PlainShape EXCEPT !.iss = IssuerOf(p)]}
\* the pair of the Plugin instance a request runs in: the one whose realm
\* issued its token
PairOf(r) == IF r.iss = ExpectedIssuer THEN ServiceRealm ELSE "other"
\* requests go to the first worker that is free
FirstFree(w) == \A v \in Workers : v < w => pc[v] # "idle"
\* the requests in flight run in the instance of pair p: requests of
\* different instances are handled one after the other
OnlyInFlight(p) == \A v \in Workers : req[v] # None => PairOf(req[v][1]) = p
RealmsOf(u) == IF u = JwtPlugin THEN Pairs ELSE {ServiceRealm}

RefreshInit ==
    /\ unit \in {JwtPlugin, AuthSvc}
    /\ config = [complete |-> TRUE, retry_count |-> 0]
    /\ now = 1
    /\ ticks = 0
    /\ pc = [w \in Workers |-> "idle"]
    /\ req = [w \in Workers |-> None]
    /\ t0 = [w \in Workers |-> 0]
    /\ io = [w \in Workers |-> NoIo]
    /\ last = None
    /\ jwks_cache = None
    /\ public_keys_cache = {}
    /\ cache_expiry = 0
    /\ RefreshIdle

\* a cache lifetime passes
Expire ==
    /\ last = None
    /\ ticks < MaxLifetimes
    /\ now' = now + cache_ttl
    /\ ticks' = ticks + 1
    /\ UNCHANGED <<refresh_vars, unit, config, pc, req, t0, io, last,
                   jwks_cache, public_keys_cache, cache_expiry>>

\* the identity provider replaces the key set of the first realm
IdpRotate ==
    /\ last = None
    /\ published[ServiceRealm] < MaxVersions
    /\ published' = [published EXCEPT ![ServiceRealm] = @ + 1]
    /\ UNCHANGED <<unit, config, now, ticks, pc, req, t0, io, last, jwks_cache,
                   public_keys_cache, cache_expiry, answer, answered, plugins>>

\* requests.get of worker w is answered: with the key set the provider
\* serves now, or the request fails
IdpAnswer(w) ==
    /\ last = None
    /\ pc[w] = "fetching"
    /\ answer[w] = None
    /\ \E out \in {[exc |-> "", body |-> KeySetAt(published[PairOf(req[w][1])])],
                    [exc |-> "RequestException", body |-> NotObject]} :
        /\ answer' = [answer EXCEPT ![w] = Some(out)]
        /\ answered' = IF out.exc # "" THEN answered
                       ELSE [answered EXCEPT ![PairOf(req[w][1])] = Some(out.body)]
    /\ UNCHANGED <<unit, config, now, ticks, pc, req, t0, io, last, jwks_cache,
                   public_keys_cache, cache_expiry, published, plugins>>

\* Plugin.access of the instance configured for some pair, up to its
\* return or up to the JWKS request when its cache cannot answer
JwtInstanceAccess(w) ==
    /\ unit = JwtPlugin
    /\ last = None
    /\ pc[w] = "idle" /\ FirstFree(w)
    /\ \E p \in Pairs : \E s \in RefreshShapes(p) :
        LET r == Stamp(s, now)
            early == JwtEarlyExit(config, r)
            tok == [r EXCEPT !.hdr = "raw"]
            self == plugins[p]
        IN
        /\ OnlyInFlight(p)
        /\ IF early # None THEN Return(w, r, early[1], NoIo, None)
           ELSE IF p \in DOMAIN self.jwks_cache /\ now < self.cache_expiry THEN
             \E legacy \in BOOLEAN :
               Return(w, r, JwtAccessResult(
                 ValidateWithKey(tok, PublicKeyFromJwks(self.jwks_cache[p], tok.kid),
                                 IssuerOf(p), ExpectedAudience, legacy, now)),
                 NoIo, None)
           ELSE Suspend(w, r, "fetching")
    /\ UNCHANGED <<unit, config, now, ticks, jwks_cache, public_keys_cache,
                   cache_expiry, published, answer, answered, plugins>>

\* a refresh that keeps the expiry in one place for all instances
JwtInstanceFetchReturnSharedExpiry(w) ==
    /\ unit = JwtPlugin
    /\ last = None
    /\ pc[w] = "fetching"
    /\ answer[w] # None
    /\ LET out == answer[w][1]
           r == req[w][1]
           tok == [r EXCEPT !.hdr = "raw"]
           p == PairOf(r)
           self == plugins[p]
       IN
       IF out.exc # "" THEN
          /\ Return(w, r, JwtAccessResult(Failure(
                       IF out.exc = "RequestException" THEN "JwksFetchFailed"
                       ELSE "JwksInvalidResponse")), io[w], Some(out))
          /\ UNCHANGED plugins
       ELSE
          /\ plugins' = [q \in Pairs |->
                IF q = p
                THEN [jwks_cache |-> DictPut(self.jwks_cache, p, out.body),
                      cache_expiry |-> t0[w] + cache_ttl,
                      fetched_at |-> DictPut(self.fetched_at, p, t0[w])]
                ELSE [plugins[q] EXCEPT !.cache_expiry = t0[w] + cache_ttl]]
          /\ \E legacy \in BOOLEAN :
               Return(w, r, JwtAccessResult(
                   ValidateWithKey(tok, PublicKeyFromJwks(out.body, tok.kid),
                                   IssuerOf(p), ExpectedAudience, legacy, now)),
                   io[w], Some(out))
    /\ answer' = [answer EXCEPT ![w] = None]
    /\ UNCHANGED <<unit, config, now, ticks, jwks_cache, public_keys_cache,
                   cache_expiry, published, answered>>
\* the answer to the JWKS request of an instance arrives and Plugin.access
\* runs to its return
JwtInstanceFetchReturn(w) ==
    /\ unit = JwtPlugin
    /\ last = None
    /\ pc[w] = "fetching"
    /\ answer[w] # None
    /\ LET out == answer[w][1]
           r == req[w][1]
           tok == [r EXCEPT !.hdr = "raw"]
           p == PairOf(r)
           self == plugins[p]
       IN
       IF out.exc # "" THEN
          /\ Return(w, r, JwtAccessResult(Failure(
                       IF out.exc = "RequestException" THEN "JwksFetchFailed"
                       ELSE "JwksInvalidResponse")), io[w], Some(out))
          /\ UNCHANGED plugins
       ELSE
          /\ plugins' = [plugins EXCEPT ![p] =
                [jwks_cache |-> DictPut(self.jwks_cache, p, out.body),
                 cache_expiry |-> t0[w] + cache_ttl,
                 fetched_at |-> DictPut(self.fetched_at, p, t0[w])]]
          /\ \E legacy \in BOOLEAN :
               Return(w, r, JwtAccessResult(
                   ValidateWithKey(tok, PublicKeyFromJwks(out.body, tok.kid),
                                   IssuerOf(p), ExpectedAudience, legacy, now)),
                   io[w], Some(out))
    /\ answer' = [answer EXCEPT ![w] = None]
    /\ UNCHANGED <<unit, config, now, ticks, jwks_cache, public_keys_cache,
                   cache_expiry, published, answered>>

\* verify_auth of the auth service for a well-formed token, up to its return
\* or up to the JWKS request
SvcTokenVerifyAuth(w) ==
    /\ unit = AuthSvc
    /\ last = None
    /\ pc[w] = "idle" /\ FirstFree(w)
    /\ \E s \in RefreshShapes(ServiceRealm) :
        LET r == Stamp(s, now)
            early == SvcEarlyExit(r)
        IN
        IF early # None THEN Return(w, r, early[1], NoIo, None)
        ELSE IF CacheFresh(cache_expiry, public_keys_cache, now) THEN
            Return(w, r, SvcAuthResult(r,
                SvcVerifyWithKeys(StripBearer(r), public_keys_cache, now)), NoIo, None)
        ELSE Suspend(w, r, "fetching")
    /\ UNCHANGED <<refresh_vars, unit, config, now, ticks, jwks_cache,
                   public_keys_cache, cache_expiry>>

\* the answer to the JWKS request of get_public_keys arrives and verify_auth
\* runs to its return
SvcFetchAnswered(w) ==
    /\ unit = AuthSvc
    /\ last = None
    /\ pc[w] = "fetching"
    /\ answer[w] # None
    /\ LET out == answer[w][1]
           r == req[w][1]
           keys == ParseJwks(out)
           public_keys == IF keys = None THEN public_keys_cache ELSE keys[1]
       IN
       /\ IF keys = None THEN UNCHANGED <<public_keys_cache, cache_expiry>>
          ELSE /\ public_keys_cache' = keys[1]
               /\ cache_expiry' = t0[w] + cache_ttl
       /\ Return(w, r, SvcAuthResult(r,
               SvcVerifyWithKeys(StripBearer(r), public_keys, now)), io[w], Some(out))
    /\ answer' = [answer EXCEPT ![w] = None]
    /\ UNCHANGED <<unit, config, now, ticks, jwks_cache, published, answered,
                   plugins>>

RefreshNext ==
    \/ Expire
    \/ Deliver
    \/ IdpRotate
    \/ \E w \in Workers : IdpAnswer(w)
    \/ \E w \in Workers : JwtInstanceAccess(w)
    \/ \E w \in Workers : JwtInstanceFetchReturn(w)
    \/ \E w \in Workers : SvcTokenVerifyAuth(w)
    \/ \E w \in Workers : SvcFetchAnswered(w)

RefreshSpec == RefreshInit /\ [][RefreshNext]_vars

\* ======================================================================
\* Properties
\* ======================================================================
\* A handler has just returned / its request, result and verification result
Returned == last # None
LastReq == last[1].req
LastRes == last[1].res
Verified == Returned /\ LastRes.v # None
LastV == LastRes.v[1]

\* the request got as far as token verification
\* (custom-jwt-auth: _validate_jwt was called; auth service: verify_jwt_token)
HeaderErrors == {"MalformedToken", "UnsupportedAlgorithm", "MissingKeyId"}
FetchErrors == {"JwksFetchFailed", "JwksInvalidResponse", "JwksError"}

\* the header segment of the token string decodes ("Basic <jwt>" is a
\* string whose first segment is no token header)
HeaderDecodes(r) == r.structure \in {"ok", "many"} /\ r.hdr \in {"Bearer", "raw"}
\* the kids of the key set the verification that just returned worked with:
\* the cache as the returning step left it
CachedKids ==
    IF unit = JwtPlugin
    THEN IF jwks_cache = None THEN {}
         ELSE {jwks_cache[1].keys[i].kid : i \in 1..Len(jwks_cache[1].keys)}
    ELSE {x.kid : x \in public_keys_cache}
\* the verification that just returned obtained a key set from the cache
\* layer (custom-jwt-auth returns none when the fetch fails)
KeySetReturned ==
    /\ Verified
    /\ HeaderDecodes(LastReq) /\ LastReq.kid # ""
    /\ unit = JwtPlugin =>
         /\ LastReq.alg \in {"RS256", ""}
         /\ jwks_cache # None /\ jwks_cache[1].object
         /\ last[1].input # None => last[1].input[1].exc = ""
\* the modulus of the cached key with the token's kid is the one that signed it
SignedByCachedKey ==
    IF unit = JwtPlugin
    THEN /\ jwks_cache # None
         /\ LET i == FindKey(jwks_cache[1].keys, LastReq.kid, 1)
            IN i # 0 /\ base64url_decode_int(jwks_cache[1].keys[i].n) = Some(LastReq.sig)
    ELSE \E x \in public_keys_cache : x.kid = LastReq.kid /\ x.key.n = LastReq.sig

\* C1: a token whose header algorithm is anything other than RS256 fails
\* verification with UnsupportedAlgorithm and yields no claims, whatever its
\* key id, the cache and its signature
C1_UnsupportedAlgorithm ==
    (Verified /\ HeaderDecodes(LastReq) /\ LastReq.alg \in {"HS256", "none"})
        => (LastV.error = "UnsupportedAlgorithm" /\ LastV.payload = None)

\* C2: when the token's key id is not in the key set the cache returned,
\* verification ends with KeyNotFound (never InvalidSignature, never success)
C2_KeyNotFound ==
    (KeySetReturned /\ LastReq.kid \notin CachedKids)
        => (LastV.error = "KeyNotFound" /\ ~LastV.is_valid)

C2_Witness ==
    /\ unit = AuthSvc /\ KeySetReturned
    /\ public_keys_cache # {} /\ LastReq.kid \notin CachedKids
    /\ LastReq.sig # 35
    /\ LastV.error = "KeyNotFound"

\* C3: a well-formed RS256 token signed by a key of the key set verifies
\* if and only if its issuer is the expected one, its audience contains the
\* expected one and its expiry is in the future, on every verification path
C3_SucceedsIffClaimsValid ==
    (KeySetReturned /\ LastReq.structure = "ok" /\ LastReq.alg = "RS256"
        /\ SignedByCachedKey /\ LastReq.nbf = None /\ LastReq.exp # None)
        => (LastV.is_valid <=>
              /\ LastReq.iss = ExpectedIssuer
              /\ ExpectedAudience \in LastReq.aud
              /\ LastReq.exp[1] > now)

\* C4: each failed gate is reported with its own error kind: a bad
\* signature as InvalidSignature, a wrong issuer as InvalidIssuer, an
\* audience without the expected one as InvalidAudience
C4_OwnErrorKind ==
    (KeySetReturned /\ LastReq.structure = "ok" /\ LastReq.alg = "RS256"
        /\ LastReq.kid \in CachedKids /\ LastReq.nbf = None
        /\ LastReq.exp # None /\ LastReq.exp[1] > now)
        => /\ ~SignedByCachedKey => LastV.error = "InvalidSignature"
           /\ (SignedByCachedKey /\ LastReq.iss = OtherIssuer)
                 => LastV.error = "InvalidIssuer"
           /\ (SignedByCachedKey /\ LastReq.iss = ExpectedIssuer
                 /\ LastReq.aud = {"other"})
                 => LastV.error = "InvalidAudience"

\* C5: a correctly signed token whose expiry is absent or not in the future
\* fails verification with ExpiredToken and yields no claims
C5_ExpiredToken ==
    (KeySetReturned /\ LastReq.structure = "ok" /\ LastReq.alg = "RS256"
        /\ SignedByCachedKey
        /\ (LastReq.exp = None \/ LastReq.exp[1] <= now))
        => (LastV.error = "ExpiredToken" /\ LastV.payload = None)

\* C6: a verification result is either success with claims and no error, or
\* failure with exactly one error and no claims
ErrorKinds ==
    HeaderErrors \cup FetchErrors \cup
    {"KeyNotFound", "UnsupportedKey", "MalformedKey", "ExpiredToken",
     "InvalidToken", "InvalidIssuer", "InvalidAudience", "InvalidSignature",
     "TokenValidationError", "Error"}
C6_NoPartialSuccess ==
    Verified =>
        \/ LastV.is_valid /\ LastV.payload # None /\ LastV.error = NoError
        \/ ~LastV.is_valid /\ LastV.payload = None /\ LastV.error \in ErrorKinds

C6_Witness ==
    /\ unit = JwtPlugin /\ Verified
    /\ ~LastV.is_valid /\ LastV.error = "ExpiredToken" /\ LastV.payload = None

\* C7: the gates run in order and the first failure aborts: a token failing
\* the header gate (malformed structure, algorithm other than RS256, missing
\* key id) is rejected without consulting or fetching the key set, and the
\* error reported is the one of the earliest failed gate
FailsHeaderGate(r) ==
    r.structure \in {"few", "garbled"} \/ r.alg \in {"HS256", "none"} \/ r.kid = ""
EarliestHeaderError(r) ==
    IF r.structure \in {"few", "garbled"} THEN "MalformedToken"
    ELSE IF r.alg \in {"HS256", "none"} THEN "UnsupportedAlgorithm"
    ELSE "MissingKeyId"
C7_GateOrder ==
    /\ \A w \in Workers :
          (unit \in {JwtPlugin, AuthSvc} /\ pc[w] = "fetching")
              => ~FailsHeaderGate(req[w][1])
    /\ (Verified /\ FailsHeaderGate(LastReq))
          => /\ last[1].io.fetches = 0
             /\ LastV.error = EarliestHeaderError(LastReq)

\* C8: a request without Authorization header is rejected with the
\* missing-header 401 before any key-set fetch and before any remote
\* verification call, in both gateway plugins
C8_MissingHeaderNoIo ==
    unit \in {JwtPlugin, PrePlugin} =>
        /\ \A w \in Workers : req[w] # None => req[w][1].hdr # "none"
        /\ (Returned /\ LastReq.hdr = "none")
              => /\ last[1].io = NoIo
                 /\ LastRes.v = None
                 /\ LastRes.status # 0
                 /\ config.complete =>
                       LastRes.status = 401 /\ LastRes.kind = "MissingAuthHeader"

C8_Witness ==
    /\ unit = PrePlugin /\ Returned /\ LastReq.hdr = "none"
    /\ LastRes.kind = "MissingAuthHeader" /\ last[1].io = NoIo

\* C9: a request whose Authorization header does not use the Bearer scheme
\* is rejected with a 401 before any token verification: custom-jwt-auth
\* does not verify it, custom-auth-pre-function does not ship it to the auth
\* service, and the auth service does not verify a token without the prefix
C9_BearerOnly ==
    /\ \A w \in Workers :
          (unit = PrePlugin /\ pc[w] = "calling") => req[w][1].hdr = "Bearer"
    /\ (Returned /\ LastReq.hdr \in {"raw", "Basic"})
          => /\ LastRes.v = None
             /\ (unit # AuthSvc /\ config.complete) => LastRes.status = 401

\* C10: custom-auth-pre-function lets a request through (no rejection,
\* identity headers set) only if the attempt it returned on answered 200
\* with a body whose 'authorized' is true; any other answer ends in a
\* rejection with no identity header set
Grants(out) ==
    out.status = 200 /\ out.body.text = "object" /\ out.body.authorized
C10_PassOnlyOnAuthorized ==
    (unit = PrePlugin /\ Returned) =>
        /\ LastRes.status = 0 =>
              /\ last[1].input # None /\ Grants(last[1].input[1])
              /\ PreIdentityHeaders \subseteq LastRes.headers
        /\ (last[1].input # None /\ ~Grants(last[1].input[1]))
              => LastRes.status \in {401, 403, 500} /\ LastRes.headers = {}
        /\ last[1].input = None => LastRes.status \in {401, 500}

C10_Witness ==
    /\ unit = PrePlugin /\ Returned
    /\ LastRes.status = 0 /\ last[1].io.calls = 2
    /\ PreIdentityHeaders \subseteq LastRes.headers

\* what _make_http_request returned to the handler of custom-auth-pre-function
\* that just returned after an attempt's answer
LastHttp ==
    MakeHttpAttempt(last[1].input[1], last[1].io.calls - 1, config.retry_count)
PreAnswered == unit = PrePlugin /\ Returned /\ last[1].input # None
RetryableFailure(status) == status \in {0, 500}

\* C11: a remote verification call that receives 401 or 403 returns a denial
\* at once: no attempt is ever made after a 401/403 answer, for every
\* retry_count and at whichever attempt the answer arrives
C11_DenialNotRetried ==
    unit = PrePlugin =>
        /\ \A w \in Workers : \A i \in 1..Len(io[w].answers) :
               io[w].answers[i] \notin {401, 403}
        /\ Returned => \A i \in 1..Len(last[1].io.answers) :
               last[1].io.answers[i] \notin {401, 403}
        /\ (PreAnswered /\ last[1].input[1].status \in {401, 403})
              => /\ ~LastHttp.success /\ LastHttp.error = "Denied"
                 /\ LastRes.status = 403 /\ LastRes.headers = {}

C11_Witness ==
    /\ PreAnswered /\ config.retry_count >= 1
    /\ last[1].io.calls = 1 /\ last[1].input[1].status = 403
    /\ LastRes.status = 403

\* C12: the call never makes more than retry_count + 1 attempts; when it
\* ends on an HTTP 500 or a transport failure it has made exactly
\* retry_count + 1 attempts and ends in a failure; with retry_count 0 it
\* makes one attempt
C12_AttemptsBounded ==
    unit = PrePlugin =>
        /\ \A w \in Workers : io[w].calls <= config.retry_count + 1
        /\ Returned => last[1].io.calls <= config.retry_count + 1
        /\ (PreAnswered /\ RetryableFailure(last[1].input[1].status))
              => /\ last[1].io.calls = config.retry_count + 1
                 /\ \A i \in 1..Len(last[1].io.answers) :
                        last[1].io.answers[i] \notin {401, 403}
                 /\ ~LastHttp.success /\ LastRes.status = 403

C12_Witness ==
    /\ PreAnswered /\ config.retry_count = 1
    /\ last[1].io.calls = 2 /\ last[1].io.answers = <<500>>
    /\ last[1].input[1].status = 0 /\ LastRes.status = 403

\* C13: when every one of the retry_count + 1 attempts failed with a
\* retryable failure, the call returns the MaxRetriesExceeded error, not
\* the error of its last attempt
C13_MaxRetriesExceeded ==
    (PreAnswered /\ last[1].io.calls = config.retry_count + 1
        /\ RetryableFailure(last[1].input[1].status)
        /\ \A i \in 1..Len(last[1].io.answers) :
               RetryableFailure(last[1].io.answers[i]))
        => LastHttp.error = "MaxRetriesExceeded"

\* C14: an answer with a status other than 200, 401 and 403 (a 201
\* included) and a transport failure are retried while attempts remain: the
\* call returns on such an answer only at attempt retry_count + 1, with a
\* failure
C14_OtherStatusRetried ==
    (PreAnswered /\ last[1].input[1].status \notin {200, 401, 403})
        => /\ last[1].io.calls = config.retry_count + 1
           /\ ~LastHttp.success

\* a key-set request is in flight for worker w
Fetching(w) == unit \in {JwtPlugin, AuthSvc} /\ pc[w] = "fetching"
\* the key-set request that the latest step saw return, if the latest step
\* is the return of a handler that was waiting for one
FetchReturned ==
    unit \in {JwtPlugin, AuthSvc} /\ Returned /\ last[1].input # None
LastFetch == last[1].input[1]
\* the kids and moduli of the keys of a fetched body
KeysOfBody(body) ==
    {[kid |-> body.keys[i].kid, n |-> base64url_decode_int(body.keys[i].n)] :
        i \in {j \in 1..Len(body.keys) : body.keys[j].kid # ""}}
\* the kids and moduli of the cached key set
KeysOfCache ==
    IF unit = JwtPlugin
    THEN IF jwks_cache = None THEN {} ELSE KeysOfBody(jwks_cache[1])
    ELSE {[kid |-> x.kid, n |-> Some(x.key.n)] : x \in public_keys_cache}
\* the refresh failed: the request raised, the body is no JSON object, or
\* (auth service) a key of the body cannot be turned into a public key
RefreshFailed(out) ==
    \/ out.exc # ""
    \/ ~out.body.object
    \/ unit = AuthSvc /\ ParseJwks(out) = None
\* a token that passes every gate given the key it names
SoundToken(r) ==
    /\ r.hdr = "Bearer" /\ r.structure = "ok" /\ r.alg = "RS256" /\ r.kid # ""
    /\ r.nbf = None /\ r.exp # None /\ r.exp[1] > now
    /\ r.iss = ExpectedIssuer /\ ExpectedAudience \in r.aud

\* C15: after a successful key-set fetch no key-set request is started
\* before fetchedAt + ttl, whatever the fetched key set contains
C15_OneFetchPerWindow ==
    [][(cache_expiry # 0 /\ now < cache_expiry)
         => \A w \in Workers : Fetching(w)' => Fetching(w)]_vars

\* C16: at no time are two key-set requests of one process in flight
C16_SingleFlight ==
    \A v, w \in Workers : (Fetching(v) /\ Fetching(w)) => v = w

\* C17: when a refresh fails and a previously fetched key set exists, the
\* previous set is used: a sound token signed with a key of it verifies
C17_StaleServe ==
    (FetchReturned /\ Verified /\ LastFetch.exc # ""
        /\ cache_expiry # 0 /\ now >= cache_expiry
        /\ SoundToken(LastReq) /\ SignedByCachedKey)
        => LastV.is_valid

\* C18: when the fetch fails and no key set was ever fetched, the key-set
\* lookup ends in a fetch error (not in an empty key set that is then
\* searched) and the token is rejected
C18_HardErrorWhenCold ==
    (FetchReturned /\ Verified /\ LastFetch.exc # "" /\ cache_expiry = 0
        /\ SoundToken(LastReq))
        => ~LastV.is_valid /\ LastV.error \in FetchErrors

\* C19: after a successful refresh the cache holds exactly the keys of the
\* fetched response: nothing of the previous set remains
C19_ReplaceNeverMerge ==
    (FetchReturned /\ ~RefreshFailed(LastFetch))
        => KeysOfCache = KeysOfBody(LastFetch.body)

C19_Witness ==
    /\ unit = AuthSvc /\ FetchReturned /\ ~RefreshFailed(LastFetch)
    /\ LastFetch.body.keys = <<KeyB>>
    /\ now >= cache_ttl
    /\ KeysOfCache = {[kid |-> "k2", n |-> Some(51)]}

\* C20: a refresh that fails leaves the cached key set and its expiry as
\* they were
C20_FailedRefreshKeepsCache ==
    [][(FetchReturned' /\ last # last' /\ RefreshFailed(LastFetch'))
         => UNCHANGED <<jwks_cache, public_keys_cache, cache_expiry>>]_vars

\* the request the authorization rules just decided on, and their decision
Decided == unit = AuthSvc /\ Verified /\ LastV.is_valid
Authorized == LastRes.status = 200 /\ LastRes.kind = "Authorized"
HasRole(name) == InList(name, LastReq.roles)
OnOrders == PathHas(LastReq.path, "orders")
OnInventory == PathHas(LastReq.path, "inventory") /\ ~OnOrders

\* C21: on a path matching /orders the request is authorized exactly when
\* it is a GET with role offline_access, a POST with uma_authorization, or
\* a PUT/DELETE with default-roles-kong
C21_OrdersRules ==
    (Decided /\ OnOrders)
        => (Authorized <=>
              \/ LastReq.method = "GET" /\ HasRole("offline_access")
              \/ LastReq.method = "POST" /\ HasRole("uma_authorization")
              \/ LastReq.method \in {"PUT", "DELETE"} /\ HasRole("default-roles-kong"))

\* C22: on a path matching /inventory and not /orders, GET is authorized
\* whatever the roles, and every mutating method only with uma_authorization
C22_InventoryRules ==
    (Decided /\ OnInventory)
        => /\ LastReq.method = "GET" => Authorized
           /\ (LastReq.method \in {"POST", "PUT", "DELETE", "PATCH"} /\ Authorized)
                 => HasRole("uma_authorization")

\* C23: on a path matching neither /orders nor /inventory, whatever the
\* method, the request is authorized iff the token carries at least one
\* role (an absent or empty role list is denied)
C23_DefaultRule ==
    (Decided /\ ~OnOrders /\ ~OnInventory)
        => (Authorized <=> LastReq.roles # <<>>)

C23_Witness ==
    /\ Decided /\ LastReq.path = <<"api", "other">> /\ LastReq.method = "DELETE"
    /\ LastReq.roles = <<"viewer">> /\ Authorized

\* C24: the enterprise id answered is enterprise-123 for kong_client,
\* enterprise-456 for mobile_app, enterprise-789 for web_app and
\* enterprise-default for every other or absent client id, whatever the
\* path, the method, the subject and the roles
C24_EnterpriseTable ==
    (Decided /\ Authorized)
        => LastRes.body[1].enterprise_id =
              (CASE LastReq.client_id = "kong_client" -> "enterprise-123"
                 [] LastReq.client_id = "mobile_app" -> "enterprise-456"
                 [] LastReq.client_id = "web_app" -> "enterprise-789"
                 [] OTHER -> "enterprise-default")

C24_Witness ==
    /\ Decided /\ Authorized /\ LastReq.client_id = ""
    /\ LastReq.path = <<"api", "inventory">> /\ LastReq.method = "POST"
    /\ LastRes.body[1].enterprise_id = "enterprise-default"

NamedKeyIndex == FindKey(LastFetch.body.keys, LastReq.kid, 1)
NamedKey == LastFetch.body.keys[NamedKeyIndex]
Unsupported(key) == key.kty # "RSA" \/ key.use \notin {"sig", ""}
Malformed(key) ==
    base64url_decode_int(key.n) = None \/ base64url_decode_int(key.e) = None
C26_KeyReconstruction ==
    (unit = JwtPlugin /\ FetchReturned /\ Verified /\ LastFetch.exc = ""
        /\ LastFetch.body.object /\ NamedKeyIndex # 0)
        => /\ Unsupported(NamedKey)
                 => /\ LastV.error = "UnsupportedKey" /\ ~LastV.is_valid
                    /\ LastRes.status = 401
           /\ (~Unsupported(NamedKey) /\ Malformed(NamedKey))
                 => /\ LastV.error = "MalformedKey" /\ ~LastV.is_valid
                    /\ LastRes.status = 401

C26_Witness ==
    /\ unit = JwtPlugin /\ FetchReturned /\ Verified /\ NamedKeyIndex # 0
    /\ NamedKey = Jwk("k1", "RSA", "enc", "Iw", "AQAB")
    /\ LastV.error = "UnsupportedKey" /\ LastRes.status = 401

\* C27: every token-verification failure reaches the gateway's caller as a
\* 401: custom-jwt-auth answers 401, and custom-auth-pre-function answers
\* 401 when the auth service answered 401
C27_VerificationFailureIs401 ==
    /\ (unit = JwtPlugin /\ Verified /\ ~LastV.is_valid) => LastRes.status = 401
    /\ (PreAnswered /\ last[1].input[1].status = 401) => LastRes.status = 401

\* C28: when the remote verification call ends in a transport error or in
\* an exhausted retry budget, the gateway's caller receives a 500 or 502,
\* never a 403 and never a pass-through
C28_TransportFailureIs5xx ==
    (PreAnswered /\ RetryableFailure(last[1].input[1].status))
        => LastRes.status \in {500, 502}

\* C29: whenever a gateway plugin lets a request through, the five identity
\* headers are set: user id, enterprise id, client id, username and roles
RolesHeaders == {"X-Roles", "X-User-Roles"}
C29_FiveIdentityHeaders ==
    (unit \in {JwtPlugin, PrePlugin} /\ Returned /\ LastRes.status = 0)
        => /\ {"X-User-ID", "X-Enterprise-ID", "X-Client-ID", "X-Username"}
                 \subseteq LastRes.headers
           /\ LastRes.headers \cap RolesHeaders # {}

\* C30: with a required setting missing, every request ends in the 500
\* configuration error, whatever its Authorization header, and no key-set
\* request and no remote verification call is ever made
C30_ConfigurationErrorFirst ==
    ~config.complete =>
        /\ \A w \in Workers : pc[w] = "idle" /\ io[w] = NoIo
        /\ Returned => /\ LastRes.status = 500 /\ LastRes.kind = "ConfigurationError"
                       /\ last[1].io = NoIo /\ LastRes.v = None

C30_Witness ==
    /\ unit = JwtPlugin /\ ~config.complete /\ Returned
    /\ LastReq.hdr = "none" /\ LastRes.status = 500

\* C32: verify_auth of the auth service answers a request without path,
\* method or token with 400 before any verification or key-set request,
\* answers every token that fails verification with 401 whatever the rules
\* would say of its claims, and answers 403 only for a verified token the
\* rules deny; the enterprise id is the one of the verified claims
MissingField(r) == r.path = <<>> \/ r.method = "" \/ r.hdr = "none"
C32_RulesOnlyOnVerified ==
    unit = AuthSvc =>
        /\ \A w \in Workers : req[w] # None => ~MissingField(req[w][1])
        /\ (Returned /\ LastReq.json /\ MissingField(LastReq))
              => /\ LastRes.status = 400 /\ LastRes.v = None
                 /\ last[1].io = NoIo
        /\ (Verified /\ ~LastV.is_valid) => LastRes.status = 401
        /\ (Returned /\ LastRes.status = 403)
              => /\ Verified /\ LastV.is_valid
                 /\ ~is_authorized(LastV.payload[1], LastReq.path, LastReq.method)
        /\ (Returned /\ LastRes.status = 200)
              => /\ Verified /\ LastV.is_valid
                 /\ LastRes.body[1].enterprise_id
                       = determine_enterprise_id(LastV.payload[1])

C32_Witness ==
    /\ unit = AuthSvc /\ Verified /\ ~LastV.is_valid
    /\ LastRes.status = 401
    /\ ~is_authorized(Payload(LastReq), LastReq.path, LastReq.method)

\* C33: on a path matching /orders or /inventory, a method the matching
\* block does not list (PATCH, HEAD, a lower-case name) is decided by the
\* default rule: authorized exactly when the claims hold at least one role,
\* whichever role it is
ListedMethods == {"GET", "POST", "PUT", "DELETE"}
C33_UnlistedMethodFallsThrough ==
    (Decided /\ (OnOrders \/ OnInventory) /\ LastReq.method \notin ListedMethods)
        => (Authorized <=> LastReq.roles # <<>>)

C33_Witness ==
    /\ Decided /\ OnOrders /\ LastReq.method = "get"
    /\ LastReq.roles = <<"viewer">> /\ Authorized

\* C34: while a key set with at least one key is cached and now is before
\* its expiry, a request whose token names a kid outside the cached set
\* starts no key-set request, is rejected, and leaves the cache and its
\* expiry as they were
FreshKeySet ==
    /\ unit \in {JwtPlugin, AuthSvc}
    /\ cache_expiry # 0 /\ now < cache_expiry
    /\ CachedKids # {}
HasBadKey(body) ==
    \E i \in 1..Len(body.keys) : Unsupported(body.keys[i]) \/ Malformed(body.keys[i])
C35_BadKeyIsLocal ==
    (FetchReturned /\ Verified /\ LastFetch.exc = "" /\ LastFetch.body.object
        /\ HasBadKey(LastFetch.body) /\ NamedKeyIndex # 0
        /\ ~Unsupported(NamedKey) /\ ~Malformed(NamedKey)
        /\ base64url_decode_int(NamedKey.n) = Some(LastReq.sig)
        /\ SoundToken(LastReq))
        => LastV.is_valid

\* C31: an instance of custom-jwt-auth answers from its cache only while
\* now is before fetched_at + ttl of the entry of its own pair, and an
\* entry past that time never counts as fresh, whatever refreshes the
\* instances of other pairs have made
CacheHit ==
    /\ unit = JwtPlugin /\ Verified /\ last[1].input = None
    /\ HeaderDecodes(LastReq) /\ LastReq.alg = "RS256" /\ LastReq.kid # ""
Fresh(p) ==
    p \in DOMAIN plugins[p].jwks_cache /\ now < plugins[p].cache_expiry
C31_FreshnessPerPair ==
    /\ CacheHit =>
          LET p == PairOf(LastReq)
          IN /\ p \in DOMAIN plugins[p].fetched_at
             /\ now < plugins[p].fetched_at[p] + cache_ttl
    /\ \A p \in Pairs :
          (unit = JwtPlugin /\ p \in DOMAIN plugins[p].fetched_at
             /\ now >= plugins[p].fetched_at[p] + cache_ttl)
              => ~Fresh(p)

C31_Witness ==
    /\ unit = JwtPlugin
    /\ "kong" \in DOMAIN plugins["kong"].fetched_at
    /\ now >= plugins["kong"].fetched_at["kong"] + cache_ttl
    /\ Fresh("other") /\ CacheHit /\ PairOf(LastReq) = "other"

\* C36: once no key-set request of a realm is in flight, the cache holds
\* the key set the identity provider gave in its latest answer: a refresh
\* that was answered earlier and completes later does not put its older
\* key set over the newer one
InFlight(p) ==
    \E w \in Workers : pc[w] = "fetching" /\ PairOf(req[w][1]) = p
CachedKeySetIs(p, body) ==
    IF unit = AuthSvc
    THEN public_keys_cache = ParseJwks([exc |-> "", body |-> body])[1]
    ELSE /\ p \in DOMAIN plugins[p].jwks_cache
         /\ plugins[p].jwks_cache[p] = body
C36_LastAnswerWins ==
    \A p \in RealmsOf(unit) :
        (unit \in {JwtPlugin, AuthSvc} /\ ~InFlight(p) /\ answered[p] # None)
            => CachedKeySetIs(p, answered[p][1])

====
